---- MODULE Spec2Model ----
(***************************************************************************)
(* A model of toml-query: the path tokenizer (src/src/tokenizer.rs), the   *)
(* read and insert extensions (src/src/read.rs, src/src/insert.rs) and the *)
(* Query / Chain / executor engine (src/src/query.rs).                     *)
(*                                                                         *)
(* A path is a sequence of one-character strings.  A signed 64-bit integer *)
(* is kept in decimal, [neg, mag], so that the i64 range is the real one.  *)
(***************************************************************************)
EXTENDS Integers, Sequences, FiniteSets, TLC

VARIABLES
    doc,       \* the live toml::Value document
    executor,  \* the ResetExecutor borrowing doc, or NoExecutor
    call,      \* the last call: its name, inputs, the document before it, its result
    nops       \* calls made so far

vars == <<doc, executor, call, nops>>

(***************************************************************************)
(* Bounds of the model.                                                    *)
(***************************************************************************)
MaxLen == 4        \* longest enumerated path string
MaxIdxDigits == 2  \* digits of the enumerated small i64 values

(***************************************************************************)
(* Result and Option values.                                               *)
(***************************************************************************)
Ok(v) == [res |-> "Ok", val |-> v]
Err(k) == [res |-> "Err", kind |-> k]
Panic(m) == [res |-> "Panic", msg |-> m]
Pending == [res |-> "Pending"]
None == [some |-> FALSE]
Some(v) == [some |-> TRUE, val |-> v]

(***************************************************************************)
(* Characters and strings.                                                 *)
(***************************************************************************)
AsciiDigit == {"0", "1", "2", "3", "4", "5", "6", "7", "8", "9"}
\* a decimal digit outside ASCII (ARABIC-INDIC DIGIT THREE), which the
\* Unicode-aware \d of the regex crate matches
UnicodeDigit == {"U+0663"}
ReDigit == AsciiDigit \cup UnicodeDigit

Alphabet == {"a", ".", "[", "]", "-", "0", "1", "U+0663"}
Seperators == {".", "-"}

RECURSIVE Strings(_)
Strings(n) ==
    IF n = 0 THEN {<<>>}
    ELSE LET shorter == Strings(n - 1) IN
         shorter \cup {Append(s, c) : s \in {t \in shorter : Len(t) = n - 1}, c \in Alphabet}

\* str::split(char): the text between the separators, empty pieces kept
RECURSIVE SplitFrom(_, _, _)
SplitFrom(s, sep, cur) ==
    IF s = <<>> THEN <<cur>>
    ELSE IF Head(s) = sep THEN <<cur>> \o SplitFrom(Tail(s), sep, <<>>)
    ELSE SplitFrom(Tail(s), sep, Append(cur, Head(s)))

Split(s, sep) == SplitFrom(s, sep, <<>>)

\* str::replace(c, ""): every occurrence of the character removed
Replace(s, c) == SelectSeq(s, LAMBDA x : x # c)

(***************************************************************************)
(* i64 in decimal.                                                         *)
(***************************************************************************)
I64(neg, mag) == [neg |-> neg, mag |-> mag]
I64MaxMag == <<"9","2","2","3","3","7","2","0","3","6","8","5","4","7","7","5","8","0","7">>
I64MinMag == <<"9","2","2","3","3","7","2","0","3","6","8","5","4","7","7","5","8","0","8">>
I64Max == I64(FALSE, I64MaxMag)
I64Min == I64(TRUE, I64MinMag)
DigitVal == [c \in AsciiDigit |->
    CASE c = "0" -> 0 [] c = "1" -> 1 [] c = "2" -> 2 [] c = "3" -> 3 [] c = "4" -> 4
      [] c = "5" -> 5 [] c = "6" -> 6 [] c = "7" -> 7 [] c = "8" -> 8 [] c = "9" -> 9]

RECURSIVE StripZeros(_)
StripZeros(d) == IF Len(d) > 1 /\ Head(d) = "0" THEN StripZeros(Tail(d)) ELSE d

RECURSIVE LexLeq(_, _)
LexLeq(a, b) ==
    IF a = <<>> THEN TRUE
    ELSE IF DigitVal[Head(a)] # DigitVal[Head(b)] THEN DigitVal[Head(a)] < DigitVal[Head(b)]
    ELSE LexLeq(Tail(a), Tail(b))

\* a <= b for magnitudes without leading zeros
MagLeq(a, b) == Len(a) < Len(b) \/ (Len(a) = Len(b) /\ LexLeq(a, b))

\* <i64 as FromStr>::from_str: an optional sign, then ASCII digits, in range
I64FromStr(s) ==
    LET neg == s # <<>> /\ Head(s) = "-"
        digs == IF s # <<>> /\ Head(s) \in {"-", "+"} THEN Tail(s) ELSE s
    IN  IF digs = <<>> THEN Err("ParseIntError")
        ELSE IF \E i \in 1..Len(digs) : digs[i] \notin AsciiDigit THEN Err("ParseIntError")
        ELSE LET m == StripZeros(digs) IN
             IF MagLeq(m, IF neg THEN I64MinMag ELSE I64MaxMag)
             THEN Ok(I64(neg /\ m # <<"0">>, m))
             ELSE Err("ParseIntError")

\* Display for i64, as the format macro prints it
I64Display(i) == (IF i.neg THEN <<"-">> ELSE <<>>) \o i.mag

\* the enumerated i64 values: the small ones and the ones at both extremes
RECURSIVE DigitStrings(_)
DigitStrings(n) ==
    IF n = 0 THEN {<<>>}
    ELSE LET shorter == DigitStrings(n - 1) IN
         shorter \cup {Append(s, c) : s \in {t \in shorter : Len(t) = n - 1}, c \in AsciiDigit}

SmallMags == {m \in DigitStrings(MaxIdxDigits) : m # <<>> /\ StripZeros(m) = m}
I64Samples ==
    {I64(FALSE, m) : m \in SmallMags}
    \cup {I64(TRUE, m) : m \in SmallMags \ {<<"0">>}}
    \cup {I64Max, I64Min,
          I64(FALSE, [I64MaxMag EXCEPT ![19] = "6"]),
          I64(TRUE, [I64MinMag EXCEPT ![19] = "7"])}

(***************************************************************************)
(* Tokens (tokenizer.rs).                                                  *)
(***************************************************************************)
Identifier(ident, next) == [kind |-> "Identifier", ident |-> ident, next |-> next]
Index(idx, next) == [kind |-> "Index", idx |-> idx, next |-> next]

set_next(self, token) == [self EXCEPT !.next = Some(token)]

\* the tokens of a chain, first to last, each without its successor
RECURSIVE ChainToSeq(_)
ChainToSeq(tok) ==
    <<[tok EXCEPT !.next = None]>>
        \o (IF tok.next.some THEN ChainToSeq(tok.next.val) ELSE <<>>)

\* the regex ^\[-?\d+\]$
RE_is_match(s) ==
    /\ Len(s) >= 3
    /\ s[1] = "["
    /\ s[Len(s)] = "]"
    /\ LET inner == SubSeq(s, 2, Len(s) - 1)
           digits == IF Head(inner) = "-" THEN Tail(inner) ELSE inner
       IN  /\ digits # <<>>
           /\ \A i \in 1..Len(digits) : digits[i] \in ReDigit

\* mutants of mk_token_object: the closing bracket is not looked at; the
\* regex has lost its optional minus
mk_token_object_OpenOnly(s) ==
    IF s = <<>> THEN Panic("index out of bounds")
    ELSE IF s[1] = "["
    THEN IF ~RE_is_match(s) THEN Err("ArrayAccessWithoutIndex")
         ELSE LET mtch == Replace(Replace(s, "["), "]")
                  i == I64FromStr(mtch)
              IN  IF i.res = "Ok" THEN Ok(Index(i.val, None))
                  ELSE Panic("unwrap on Err")
    ELSE Ok(Identifier(s, None))

mk_token_object_NoMinus(s) ==
    IF s = <<>> THEN Panic("index out of bounds")
    ELSE IF s[1] = "[" /\ s[Len(s)] = "]"
    THEN IF ~(RE_is_match(s) /\ s[2] # "-") THEN Err("ArrayAccessWithoutIndex")
         ELSE LET mtch == Replace(Replace(s, "["), "]")
                  i == I64FromStr(mtch)
              IN  IF i.res = "Ok" THEN Ok(Index(i.val, None))
                  ELSE Panic("unwrap on Err")
    ELSE Ok(Identifier(s, None))

mk_token_object(s) ==
    IF s = <<>> THEN Panic("index out of bounds")   \* s.as_bytes()[0] of an empty str
    ELSE IF s[1] = "[" /\ s[Len(s)] = "]"
    THEN IF ~RE_is_match(s) THEN Err("ArrayAccessWithoutIndex")
         ELSE LET mtch == Replace(Replace(s, "["), "]")
                  i == I64FromStr(mtch)
              IN  IF i.res = "Ok" THEN Ok(Index(i.val, None))
                  ELSE Panic("unwrap on Err")
    ELSE Ok(Identifier(s, None))

RECURSIVE build_token_tree(_, _)
\* mutant of build_token_tree: the rest of the chain is attached to the wrong token
build_token_tree_Flat(split, last) ==
    IF split = <<>> THEN Ok(last)
    ELSE LET token == mk_token_object(Head(split)) IN
         IF token.res # "Ok" THEN token
         ELSE LET sub == build_token_tree(Tail(split), last) IN
              IF sub.res # "Ok" THEN sub
              ELSE Ok(set_next(token.val, sub.val))

build_token_tree(split, last) ==
    IF split = <<>> THEN Ok(last)
    ELSE LET token == mk_token_object(Head(split)) IN
         IF token.res # "Ok" THEN token
         ELSE LET sub == build_token_tree(Tail(split), token.val) IN
              IF sub.res # "Ok" THEN sub
              ELSE Ok(set_next(last, sub.val))

tokenize_with_seperator(query, seperator) ==
    IF query = <<>> THEN Err("EmptyQueryError")
    ELSE LET tokens == Split(query, seperator) IN
         IF tokens = <<>> THEN Err("EmptyQueryError")
         ELSE IF Len(Head(tokens)) = 0 THEN Err("EmptyIdentifier")
         ELSE LET tok == mk_token_object(Head(tokens)) IN
              IF tok.res # "Ok" THEN tok
              ELSE build_token_tree(Tail(tokens), tok.val)

(***************************************************************************)
(* Documents (toml::Value).  A Table is a function from keys to values, an *)
(* Array a sequence of values.                                             *)
(***************************************************************************)
Integer(i) == [tag |-> "Integer", int |-> i]
Table(t) == [tag |-> "Table", tbl |-> t]
Array(a) == [tag |-> "Array", ary |-> a]
String(x) == [tag |-> "String", str |-> x]
Float(x) == [tag |-> "Float", flt |-> x]
Boolean(x) == [tag |-> "Boolean", bool |-> x]
Datetime(x) == [tag |-> "Datetime", dt |-> x]
EmptyTable == Table([k \in {} |-> None])

\* BTreeMap::insert: the entry set, whether or not the key was there
TableInsert(t, k, val) == [x \in DOMAIN t \cup {k} |-> IF x = k THEN val ELSE t[x]]
\* BTreeMap::get
TableGet(t, k) == IF k \in DOMAIN t THEN Some(t[k]) ELSE None

RECURSIVE MagToNat(_)
MagToNat(mag) ==
    IF mag = <<>> THEN 0
    ELSE 10 * MagToNat(SubSeq(mag, 1, Len(mag) - 1)) + DigitVal[mag[Len(mag)]]

\* idx lies in [0, len), for the short arrays of the model (len < 10000)
IdxInRange(idx, len) == ~idx.neg /\ Len(idx.mag) <= 4 /\ MagToNat(idx.mag) < len

NoExecutor == [alive |-> FALSE]
NoCall == [op |-> "none"]

(***************************************************************************)
(* The resolvers.                                                          *)
(***************************************************************************)
\* resolver::non_mut_resolver::resolve: the walk of a document along a chain
RECURSIVE resolve(_, _)
resolve(toml, tokens) ==
    LET tok == Head(tokens) IN
    IF tok.kind = "Identifier"
    THEN IF toml.tag = "Table"
         THEN IF tok.ident \notin DOMAIN toml.tbl THEN Ok(None)
              ELSE IF Len(tokens) = 1 THEN Ok(Some(toml.tbl[tok.ident]))
              ELSE resolve(toml.tbl[tok.ident], Tail(tokens))
         ELSE Err("StructuralTypeMismatch")
    ELSE IF toml.tag = "Array"
         THEN IF ~IdxInRange(tok.idx, Len(toml.ary)) THEN Ok(None)
              ELSE IF Len(tokens) = 1 THEN Ok(Some(toml.ary[MagToNat(tok.idx.mag) + 1]))
              ELSE resolve(toml.ary[MagToNat(tok.idx.mag) + 1], Tail(tokens))
         ELSE IF toml.tag = "Table" THEN Err("NoIndexInTable")
         ELSE Err("StructuralTypeMismatch")

\* a place inside a document: the keys and positions from the root
AtKey(k) == [key |-> k]
AtPos(i) == [pos |-> i]

RECURSIVE GetAt(_, _)
GetAt(node, loc) ==
    IF loc = <<>> THEN node
    ELSE IF "key" \in DOMAIN Head(loc) THEN GetAt(node.tbl[Head(loc).key], Tail(loc))
    ELSE GetAt(node.ary[Head(loc).pos], Tail(loc))

RECURSIVE SetAt(_, _, _)
SetAt(node, loc, val) ==
    IF loc = <<>> THEN val
    ELSE IF "key" \in DOMAIN Head(loc)
    THEN Table([node.tbl EXCEPT ![Head(loc).key] = SetAt(node.tbl[Head(loc).key], Tail(loc), val)])
    ELSE Array([node.ary EXCEPT ![Head(loc).pos] = SetAt(node.ary[Head(loc).pos], Tail(loc), val)])

\* Token::pop_last: the chain without its last token, and that token
pop_last(tokens) ==
    LET s == ChainToSeq(tokens) IN
    [rest |-> SubSeq(s, 1, Len(s) - 1), last |-> s[Len(s)]]

\* resolver::mut_resolver::resolve as insert uses it: the walk that creates
\* the containers it misses (an empty Array where the following token is an
\* Index, an empty Table otherwise) and appends to an Array that is too
\* short.  Yields the place reached and the document as the walk left it.
RECURSIVE resolve_mut(_, _, _)
resolve_mut(toml, tokens, lastKind) ==
    IF tokens = <<>> THEN [r |-> Ok(<<>>), node |-> toml]
    ELSE
    LET tok == Head(tokens)
        nextKind == IF Len(tokens) > 1 THEN tokens[2].kind ELSE lastKind
        fresh == IF nextKind = "Index" THEN Array(<<>>) ELSE EmptyTable
    IN
    IF tok.kind = "Identifier"
    THEN IF toml.tag = "Table"
         THEN LET child == IF tok.ident \in DOMAIN toml.tbl THEN toml.tbl[tok.ident] ELSE fresh
                  sub == resolve_mut(child, Tail(tokens), lastKind)
              IN  [r |-> IF sub.r.res = "Ok" THEN Ok(<<AtKey(tok.ident)>> \o sub.r.val) ELSE sub.r,
                   node |-> Table(TableInsert(toml.tbl, tok.ident, sub.node))]
         ELSE [r |-> Err("StructuralTypeMismatch"), node |-> toml]
    ELSE IF toml.tag = "Array"
         THEN LET inside == IdxInRange(tok.idx, Len(toml.ary))
                  pos == IF inside THEN MagToNat(tok.idx.mag) + 1 ELSE Len(toml.ary) + 1
                  ary == IF inside THEN toml.ary ELSE Append(toml.ary, fresh)
                  sub == resolve_mut(ary[pos], Tail(tokens), lastKind)
              IN  [r |-> IF sub.r.res = "Ok" THEN Ok(<<AtPos(pos)>> \o sub.r.val) ELSE sub.r,
                   node |-> Array([ary EXCEPT ![pos] = sub.node])]
         ELSE IF toml.tag = "Table" THEN [r |-> Err("NoIndexInTable"), node |-> toml]
         ELSE [r |-> Err("StructuralTypeMismatch"), node |-> toml]

(***************************************************************************)
(* read.rs and insert.rs.                                                  *)
(***************************************************************************)
\* mutant of read_with_seperator: an absent value is reported as an error
read_with_seperator_Strict(self, query, sep) ==
    LET tokens == tokenize_with_seperator(query, sep) IN
    IF tokens.res # "Ok" THEN tokens
    ELSE LET r == resolve(self, ChainToSeq(tokens.val)) IN
         IF r = Ok(None) THEN Err("NotAvailable") ELSE r

\* mutant of read_with_seperator: an Index on a Table counts as an absent value
read_with_seperator_IndexAbsent(self, query, sep) ==
    LET tokens == tokenize_with_seperator(query, sep) IN
    IF tokens.res # "Ok" THEN tokens
    ELSE LET r == resolve(self, ChainToSeq(tokens.val)) IN
         IF r = Err("NoIndexInTable") THEN Ok(None) ELSE r

\* mutant of read_with_seperator: a structural mismatch counts as an absent value
read_with_seperator_MismatchAbsent(self, query, sep) ==
    LET tokens == tokenize_with_seperator(query, sep) IN
    IF tokens.res # "Ok" THEN tokens
    ELSE LET r == resolve(self, ChainToSeq(tokens.val)) IN
         IF r = Err("StructuralTypeMismatch") THEN Ok(None) ELSE r

\* mutant of read_with_seperator: the walk stops one token early
read_with_seperator_Parent(self, query, sep) ==
    LET tokens == tokenize_with_seperator(query, sep) IN
    IF tokens.res # "Ok" THEN tokens
    ELSE LET toks == ChainToSeq(tokens.val) IN
         IF Len(toks) = 1 THEN Ok(Some(self))
         ELSE resolve(self, SubSeq(toks, 1, Len(toks) - 1))

read_with_seperator(self, query, sep) ==
    LET tokens == tokenize_with_seperator(query, sep) IN
    IF tokens.res # "Ok" THEN tokens
    ELSE resolve(self, ChainToSeq(tokens.val))

read(self, query) == read_with_seperator(self, query, ".")

\* resolver::mut_resolver::resolve as read_mut uses it: the walk of resolve,
\* yielding an exclusive reference
mut_resolve(toml, tokens) == resolve(toml, tokens)

read_mut_with_seperator(self, query, sep) ==
    LET tokens == tokenize_with_seperator(query, sep) IN
    IF tokens.res # "Ok" THEN tokens
    ELSE mut_resolve(self, ChainToSeq(tokens.val))

read_mut(self, query) == read_mut_with_seperator(self, query, ".")

\* mutant of insert_with_seperator: the replaced value is dropped
insert_with_seperator_DropsOld(self, query, sep, value) ==
    LET tokens == tokenize_with_seperator(query, sep) IN
    IF tokens.res # "Ok" THEN [res |-> tokens, doc |-> self]
    ELSE
    LET p == pop_last(tokens.val)
        w == resolve_mut(self, p.rest, p.last.kind)
    IN
    IF w.r.res # "Ok" THEN [res |-> w.r, doc |-> w.node]
    ELSE
    LET val == GetAt(w.node, w.r.val) IN
    IF p.last.kind = "Identifier"
    THEN IF val.tag = "Table"
         THEN [res |-> Ok(None),
               doc |-> SetAt(w.node, w.r.val, Table(TableInsert(val.tbl, p.last.ident, value)))]
         ELSE [res |-> Panic("not implemented"), doc |-> w.node]
    ELSE [res |-> Panic("not implemented"), doc |-> w.node]

\* mutant of insert_with_seperator: the entry is set in the root table
insert_with_seperator_AtRoot(self, query, sep, value) ==
    LET tokens == tokenize_with_seperator(query, sep) IN
    IF tokens.res # "Ok" THEN [res |-> tokens, doc |-> self]
    ELSE
    LET p == pop_last(tokens.val)
        w == resolve_mut(self, p.rest, p.last.kind)
    IN
    IF w.r.res # "Ok" THEN [res |-> w.r, doc |-> w.node]
    ELSE
    LET val == GetAt(w.node, w.r.val) IN
    IF p.last.kind = "Identifier"
    THEN IF val.tag = "Table"
         THEN [res |-> Ok(TableGet(val.tbl, p.last.ident)),
               doc |-> Table(TableInsert(w.node.tbl, p.last.ident, value))]
         ELSE [res |-> Panic("not implemented"), doc |-> w.node]
    ELSE [res |-> Panic("not implemented"), doc |-> w.node]

\* mutant of insert_with_seperator: the table is left with the new entry alone
insert_with_seperator_ClearsTable(self, query, sep, value) ==
    LET tokens == tokenize_with_seperator(query, sep) IN
    IF tokens.res # "Ok" THEN [res |-> tokens, doc |-> self]
    ELSE
    LET p == pop_last(tokens.val)
        w == resolve_mut(self, p.rest, p.last.kind)
    IN
    IF w.r.res # "Ok" THEN [res |-> w.r, doc |-> w.node]
    ELSE
    LET val == GetAt(w.node, w.r.val) IN
    IF p.last.kind = "Identifier"
    THEN IF val.tag = "Table"
         THEN [res |-> Ok(TableGet(val.tbl, p.last.ident)),
               doc |-> SetAt(w.node, w.r.val, Table([x \in {p.last.ident} |-> value]))]
         ELSE [res |-> Panic("not implemented"), doc |-> w.node]
    ELSE [res |-> Panic("not implemented"), doc |-> w.node]

\* yields the result and the document as the call leaves it
insert_with_seperator(self, query, sep, value) ==
    LET tokens == tokenize_with_seperator(query, sep) IN
    IF tokens.res # "Ok" THEN [res |-> tokens, doc |-> self]
    ELSE
    LET p == pop_last(tokens.val)
        w == resolve_mut(self, p.rest, p.last.kind)
    IN
    IF w.r.res # "Ok" THEN [res |-> w.r, doc |-> w.node]
    ELSE
    LET val == GetAt(w.node, w.r.val) IN
    IF p.last.kind = "Identifier"
    THEN IF val.tag = "Table"
         THEN [res |-> Ok(TableGet(val.tbl, p.last.ident)),
               doc |-> SetAt(w.node, w.r.val, Table(TableInsert(val.tbl, p.last.ident, value)))]
         ELSE [res |-> Panic("not implemented"), doc |-> w.node]   \* unimplemented!()
    ELSE [res |-> Panic("not implemented"), doc |-> w.node]        \* unimplemented!()

insert(self, query, value) == insert_with_seperator(self, query, ".", value)

(***************************************************************************)
(* The type layer: Type and as_type of read.rs and of result.rs.           *)
(***************************************************************************)
Type == {"Type::String", "Type::Integer", "Type::Float", "Type::Boolean",
         "Type::Datetime", "Type::Array", "Type::Table"}

\* mutant of matches: an Integer passes for a Float
matches_IntegerAsFloat(self, v) ==
    \/ self = "Type::String" /\ v.tag = "String"
    \/ self = "Type::Integer" /\ v.tag = "Integer"
    \/ self = "Type::Float" /\ v.tag \in {"Float", "Integer"}
    \/ self = "Type::Boolean" /\ v.tag = "Boolean"
    \/ self = "Type::Datetime" /\ v.tag = "Datetime"
    \/ self = "Type::Array" /\ v.tag = "Array"
    \/ self = "Type::Table" /\ v.tag = "Table"

\* Type::matches
matches(self, v) ==
    \/ self = "Type::String" /\ v.tag = "String"
    \/ self = "Type::Integer" /\ v.tag = "Integer"
    \/ self = "Type::Float" /\ v.tag = "Float"
    \/ self = "Type::Boolean" /\ v.tag = "Boolean"
    \/ self = "Type::Datetime" /\ v.tag = "Datetime"
    \/ self = "Type::Array" /\ v.tag = "Array"
    \/ self = "Type::Table" /\ v.tag = "Table"

\* Type::name
Type_name(self) ==
    CASE self = "Type::Array" -> "Array"
      [] self = "Type::Boolean" -> "Boolean"
      [] self = "Type::Datetime" -> "Datetime"
      [] self = "Type::Float" -> "Float"
      [] self = "Type::Integer" -> "Integer"
      [] self = "Type::String" -> "String"
      [] self = "Type::Table" -> "Table"

\* util::name_of_val
name_of_val(val) ==
    CASE val.tag = "Array" -> "Array"
      [] val.tag = "Boolean" -> "Boolean"
      [] val.tag = "Datetime" -> "Datetime"
      [] val.tag = "Float" -> "Float"
      [] val.tag = "Integer" -> "Integer"
      [] val.tag = "String" -> "String"
      [] val.tag = "Table" -> "Table"

\* ErrorKind::TypeError(expected, actual) as an Err
TypeError(expected, actual) ==
    [res |-> "Err", kind |-> "TypeError", expected |-> expected, actual |-> actual]
\* result::Error::TomlQueryError around the error of an Err
TomlQueryError(e) == [res |-> "Err", kind |-> "TomlQueryError", inner |-> e]

\* read.rs, as_type of Result<Value> and of Result<&Value>
as_type_Value(self, t) ==
    IF self.res # "Ok" THEN self
    ELSE IF matches(t, self.val) THEN Ok(self.val)
    ELSE TypeError(Type_name(t), name_of_val(self.val))

as_type_Ref(self, t) ==
    IF self.res # "Ok" THEN self
    ELSE IF matches(t, self.val) THEN Ok(self.val)
    ELSE TypeError(Type_name(t), name_of_val(self.val))

\* read.rs, as_type of Result<Option<Value>> and of Result<Option<&Value>>
as_type_Option_Value(self, t) ==
    IF self.res # "Ok" THEN self
    ELSE IF ~self.val.some THEN Ok(None)
    ELSE IF matches(t, self.val.val) THEN Ok(Some(self.val.val))
    ELSE TypeError(Type_name(t), name_of_val(self.val.val))

as_type_Option_Ref(self, t) ==
    IF self.res # "Ok" THEN self
    ELSE IF ~self.val.some THEN Ok(None)
    ELSE IF matches(t, self.val.val) THEN Ok(Some(self.val.val))
    ELSE TypeError(Type_name(t), name_of_val(self.val.val))

\* result.rs, the same four for Result<_, Error<E>>
as_type_E_Value(self, t) ==
    IF self.res # "Ok" THEN self
    ELSE IF matches(t, self.val) THEN Ok(self.val)
    ELSE TomlQueryError(TypeError(Type_name(t), name_of_val(self.val)))

as_type_E_Ref(self, t) ==
    IF self.res # "Ok" THEN self
    ELSE IF matches(t, self.val) THEN Ok(self.val)
    ELSE TomlQueryError(TypeError(Type_name(t), name_of_val(self.val)))

as_type_E_Option_Value(self, t) ==
    IF self.res # "Ok" THEN self
    ELSE IF ~self.val.some THEN Ok(None)
    ELSE IF matches(t, self.val.val) THEN Ok(Some(self.val.val))
    ELSE TomlQueryError(TypeError(Type_name(t), name_of_val(self.val.val)))

as_type_E_Option_Ref(self, t) ==
    IF self.res # "Ok" THEN self
    ELSE IF ~self.val.some THEN Ok(None)
    ELSE IF matches(t, self.val.val) THEN Ok(Some(self.val.val))
    ELSE TomlQueryError(TypeError(Type_name(t), name_of_val(self.val.val)))

\* ErrorKind::NotAvailable(path) as an Err
NotAvailable(path) == [res |-> "Err", kind |-> "NotAvailable", path |-> path]

\* the native values the typed getters return
NativeString(x) == [string |-> x]
NativeI64(x) == [i64 |-> x]
NativeF64(x) == [f64 |-> x]
NativeBool(x) == [bool |-> x]

\* the matcher arm of a getter: the value out of a Value of the getter's tag
Unwrapped(o) ==
    CASE o.tag = "String" -> NativeString(o.str)
      [] o.tag = "Integer" -> NativeI64(o.int)
      [] o.tag = "Float" -> NativeF64(o.flt)
      [] o.tag = "Boolean" -> NativeBool(o.bool)

\* mutant of make_type_getter: a value of another tag is reported as absent
make_type_getter_WrongTagAbsent(tag, typename, self, query) ==
    LET r == read_with_seperator(self, query, ".") IN
    IF r.res # "Ok" THEN r
    ELSE IF r.val.some /\ r.val.val.tag = tag THEN Ok(Unwrapped(r.val.val))
    ELSE NotAvailable(query)

\* the and_then of make_type_getter!: the match on what read returned
type_getter_match(tag, typename, query, r) ==
    IF r.res # "Ok" THEN r
    ELSE IF r.val.some /\ r.val.val.tag = tag THEN Ok(Unwrapped(r.val.val))
    ELSE IF r.val.some THEN TypeError(typename, name_of_val(r.val.val))
    ELSE NotAvailable(query)

\* make_type_getter!: the body of a getter for the Values of one tag
make_type_getter(tag, typename, self, query) ==
    type_getter_match(tag, typename, query, read_with_seperator(self, query, "."))

read_string(self, query) == make_type_getter("String", "String", self, query)
read_int(self, query) == make_type_getter("Integer", "Integer", self, query)
read_float(self, query) == make_type_getter("Float", "Float", self, query)
read_bool(self, query) == make_type_getter("Boolean", "Boolean", self, query)

(***************************************************************************)
(* query.rs: Query, Chain and the executors.                               *)
(***************************************************************************)
\* An implementor of Query, as the stubs of the tests are: it may set a key
\* of the document, and it returns an output built from the previous result
\* or fails with an error of its own.
NoKey == <<>>
Step(name, key, fails) == [kind |-> "Step", name |-> name, key |-> key, fails |-> fails]

\* Query::execute of such an implementor.  The log holds, for each execute
\* that was invoked, the step, the previous result and the document it got.
step_execute(self, target, prev_result) ==
    [res |-> IF self.fails THEN Err(self.name)
             ELSE Ok([by |-> self.name, prev |-> prev_result]),
     doc |-> IF self.key = NoKey THEN target
             ELSE Table(TableInsert(target.tbl, self.key, Integer(1))),
     log |-> <<[step |-> self, prev |-> prev_result, saw |-> target]>>]

\* Query::chain
chain(self, other) == [kind |-> "Chain", first |-> self, second |-> other]

RECURSIVE execute(_, _, _)
\* mutant of execute: the second query runs whatever the first returned
execute_RunsBoth(self, target, prev_result) ==
    IF self.kind = "Chain"
    THEN LET p == execute(self.first, target, prev_result)
             s == execute(self.second, p.doc,
                          IF p.res.res = "Ok" THEN Some(p.res.val) ELSE None)
         IN  [res |-> IF p.res.res = "Ok" THEN s.res ELSE p.res,
              doc |-> s.doc, log |-> p.log \o s.log]
    ELSE step_execute(self, target, prev_result)

\* mutant of execute: the first query of a Chain gets no previous result
execute_FirstGetsNone(self, target, prev_result) ==
    IF self.kind = "Chain"
    THEN LET p == execute(self.first, target, None) IN
         IF p.res.res # "Ok" THEN p
         ELSE LET s == execute(self.second, p.doc, Some(p.res.val)) IN
              [res |-> s.res, doc |-> s.doc, log |-> p.log \o s.log]
    ELSE step_execute(self, target, prev_result)

\* mutant of execute: the second query of a Chain gets the chain's own input
execute_SecondGetsPrev(self, target, prev_result) ==
    IF self.kind = "Chain"
    THEN LET p == execute(self.first, target, prev_result) IN
         IF p.res.res # "Ok" THEN p
         ELSE LET s == execute(self.second, p.doc, prev_result) IN
              [res |-> s.res, doc |-> s.doc, log |-> p.log \o s.log]
    ELSE step_execute(self, target, prev_result)

\* Query::execute; for a Chain, Chain::execute
execute(self, target, prev_result) ==
    IF self.kind = "Chain"
    THEN LET p == execute(self.first, target, prev_result) IN
         IF p.res.res # "Ok" THEN p
         ELSE LET s == execute(self.second, p.doc, Some(p.res.val)) IN
              [res |-> s.res, doc |-> s.doc, log |-> p.log \o s.log]
    ELSE step_execute(self, target, prev_result)

\* <Value as QueryExecutor>::query
Value_query(self, q) == execute(q, self, None)

\* ResetExecutor::new: the document is borrowed and cloned
ResetExecutor_new(d) == [alive |-> TRUE, snapshot |-> d]

\* mutant of ResetExecutor_query: the error is passed on without the reset
ResetExecutor_query_NoReset(self, target, q) == execute(q, target, None)

\* mutant of ResetExecutor_query: the snapshot is the document as the call found it
ResetExecutor_query_SnapshotPerCall(self, target, q) ==
    LET r == execute(q, target, None) IN
    IF r.res.res = "Err" THEN [r EXCEPT !.doc = target] ELSE r

\* <ResetExecutor as QueryExecutor>::query: on an error the document is set
\* to the clone taken by new
ResetExecutor_query(self, target, q) ==
    LET r == execute(q, target, None) IN
    IF r.res.res = "Err" THEN [r EXCEPT !.doc = self.snapshot] ELSE r

(***************************************************************************)
(* The tokenizer on its own.                                               *)
(***************************************************************************)
ExamplePaths == {
    <<"a", ".", "b", ".", "c", ".", "[", "1", "0", "0", "0", "]">>,
    <<"a", ".", "b", ".", "c", ".", "[", "]">>,
    <<"e", "x", "a", "m", "p", "l", "e">>,
    <<"[", "9","2","2","3","3","7","2","0","3","6","8","5","4","7","7","5","8","0","8", "]">>,
    <<"a", ".", "b", ".", ".", "c">>}

\* the inputs of one tokenizer run: a path with a separator, or the i64 that
\* the quickcheck property test_array_index formats into a path
TokInputs ==
    {[op |-> "tokenize_with_seperator", query |-> q, seperator |-> sep, res |-> Pending] :
        q \in Strings(MaxLen) \cup ExamplePaths, sep \in Seperators}
    \cup {[op |-> "test_array_index", i |-> i, res |-> Pending] : i \in I64Samples}

TokInit ==
    /\ doc = EmptyTable
    /\ executor = NoExecutor
    /\ call \in TokInputs
    /\ nops = 0

Tokenize ==
    /\ call.op = "tokenize_with_seperator"
    /\ call.res = Pending
    /\ call' = [call EXCEPT !.res = tokenize_with_seperator(call.query, call.seperator)]
    /\ UNCHANGED <<doc, executor, nops>>

\* the quickcheck property test_array_index
TestArrayIndex ==
    /\ call.op = "test_array_index"
    /\ call.res = Pending
    /\ call' = [call EXCEPT !.res =
                    tokenize_with_seperator(<<"[">> \o I64Display(call.i) \o <<"]">>, ".")]
    /\ UNCHANGED <<doc, executor, nops>>

TokNext == Tokenize \/ TestArrayIndex

SpecTok == TokInit /\ [][TokNext]_vars

(***************************************************************************)
(* Reads and inserts on a document.                                        *)
(***************************************************************************)
MaxOps == 2        \* calls made on one document

K_table == <<"t", "a", "b", "l", "e">>
K_array == <<"a", "r", "r", "a", "y">>
K_a == <<"a">>
K_b == <<"b">>
K_c == <<"c">>

Tbl1(k, val) == Table([x \in {k} |-> val])

InitDocs == {
    EmptyTable,
    Tbl1(K_table, EmptyTable),
    Tbl1(K_table, Tbl1(K_a, Integer(1))),
    Tbl1(K_array, Array(<<>>)),
    Tbl1(K_array, Array(<<Integer(1), Integer(2), Integer(3)>>)),
    Tbl1(K_a, EmptyTable),
    Tbl1(K_a, Tbl1(K_b, Tbl1(K_c, EmptyTable))),
    Tbl1(K_a, String(<<"x">>)),
    Tbl1(K_a, Float(<<"1", ".", "5">>)),
    Tbl1(K_a, Boolean(TRUE))}

InsertPaths == {
    <<"t", "a", "b", "l", "e", ".", "a">>,
    <<"a", "r", "r", "a", "y", ".", "[", "0", "]">>,
    <<"a", "r", "r", "a", "y", ".", "[", "1", "0", "0", "0", "]">>,
    <<"a", ".", "b", ".", "c", ".", "d">>,
    <<"a", ".", "b", ".", "c", ".", "[", "0", "]">>,
    <<"a">>,
    <<"t", "a", "b", "l", "e", ".", "a", ".", "b">>,
    <<"a", ".", "[", "0", "]", ".", "b">>,
    <<"a", "r", "r", "a", "y", ".", "a">>,
    <<"a", ".">>,
    <<>>}

ReadPaths == {
    <<"a">>,
    <<"t", "a", "b", "l", "e">>,
    <<"t", "a", "b", "l", "e", ".", "a">>,
    <<"t", "a", "b", "l", "e", ".", "[", "0", "]">>,
    <<"a", "r", "r", "a", "y", ".", "[", "0", "]">>,
    <<"a", "r", "r", "a", "y", ".", "[", "-", "1", "]">>,
    <<"a", "r", "r", "a", "y", ".", "[", "3", "]">>,
    <<"a", ".", "b", ".", "c", ".", "d">>,
    <<"t", "a", "b", "l", "e", ".", "a", ".", "b">>,
    <<"a", "r", "r", "a", "y", ".", "a">>,
    <<"t", "a", "b", "l", "e", ".", "a", ".", "[", "0", "]">>,
    <<"[", "9","2","2","3","3","7","2","0","3","6","8","5","4","7","7","5","8","0","8", "]">>,
    <<>>}

SlashPaths == {<<"t", "a", "b", "l", "e", "/", "a">>, <<"a", ".", "b", "/", "c">>,
               <<"t", "a", "b", "l", "e", "/", "[", "0", "]">>}

InsertValues == {Integer(1), Integer(2)}

DocInit ==
    /\ doc \in InitDocs
    /\ executor = NoExecutor
    /\ call = NoCall
    /\ nops = 0

\* the process goes on after a call unless the call panicked
Running == nops < MaxOps /\ (call.op # "none" => call.res.res # "Panic")

\* mutant of Read: the walk of a read creates what it misses, as insert's does
Read_Creates(query) ==
    /\ Running
    /\ call' = [op |-> "read", query |-> query, seperator |-> ".", pre |-> doc,
                res |-> read(doc, query)]
    /\ doc' = LET tokens == tokenize_with_seperator(query, ".") IN
              IF tokens.res # "Ok" THEN doc
              ELSE resolve_mut(doc, ChainToSeq(tokens.val), "Identifier").node
    /\ nops' = nops + 1
    /\ UNCHANGED executor

Read(query) ==
    /\ Running
    /\ call' = [op |-> "read", query |-> query, seperator |-> ".", pre |-> doc,
                res |-> read(doc, query)]
    /\ nops' = nops + 1
    /\ UNCHANGED <<doc, executor>>

ReadWithSeperator(query, sep) ==
    /\ Running
    /\ call' = [op |-> "read", query |-> query, seperator |-> sep, pre |-> doc,
                res |-> read_with_seperator(doc, query, sep)]
    /\ nops' = nops + 1
    /\ UNCHANGED <<doc, executor>>

\* the call hands out a reference; the document is as it was when it returns
ReadMut(query) ==
    /\ Running
    /\ call' = [op |-> "read_mut", query |-> query, seperator |-> ".", pre |-> doc,
                res |-> read_mut(doc, query)]
    /\ nops' = nops + 1
    /\ UNCHANGED <<doc, executor>>

ReadMutWithSeperator(query, sep) ==
    /\ Running
    /\ call' = [op |-> "read_mut", query |-> query, seperator |-> sep, pre |-> doc,
                res |-> read_mut_with_seperator(doc, query, sep)]
    /\ nops' = nops + 1
    /\ UNCHANGED <<doc, executor>>

ReadString(query) ==
    /\ Running
    /\ call' = [op |-> "read_string", query |-> query, seperator |-> ".", pre |-> doc,
                res |-> read_string(doc, query)]
    /\ nops' = nops + 1
    /\ UNCHANGED <<doc, executor>>

ReadInt(query) ==
    /\ Running
    /\ call' = [op |-> "read_int", query |-> query, seperator |-> ".", pre |-> doc,
                res |-> read_int(doc, query)]
    /\ nops' = nops + 1
    /\ UNCHANGED <<doc, executor>>

ReadFloat(query) ==
    /\ Running
    /\ call' = [op |-> "read_float", query |-> query, seperator |-> ".", pre |-> doc,
                res |-> read_float(doc, query)]
    /\ nops' = nops + 1
    /\ UNCHANGED <<doc, executor>>

ReadBool(query) ==
    /\ Running
    /\ call' = [op |-> "read_bool", query |-> query, seperator |-> ".", pre |-> doc,
                res |-> read_bool(doc, query)]
    /\ nops' = nops + 1
    /\ UNCHANGED <<doc, executor>>

Insert(query, value) ==
    /\ Running
    /\ \E r \in {insert(doc, query, value)} :
       /\ doc' = r.doc
       /\ call' = [op |-> "insert", query |-> query, seperator |-> ".", value |-> value,
                   pre |-> doc, res |-> r.res]
    /\ nops' = nops + 1
    /\ UNCHANGED executor

InsertWithSeperator(query, sep, value) ==
    /\ Running
    /\ \E r \in {insert_with_seperator(doc, query, sep, value)} :
       /\ doc' = r.doc
       /\ call' = [op |-> "insert", query |-> query, seperator |-> sep, value |-> value,
                   pre |-> doc, res |-> r.res]
    /\ nops' = nops + 1
    /\ UNCHANGED executor

DocNext ==
    \/ \E query \in ReadPaths : Read(query)
    \/ \E query \in SlashPaths : ReadWithSeperator(query, "/")
    \/ \E query \in ReadPaths : ReadMut(query)
    \/ \E query \in SlashPaths : ReadMutWithSeperator(query, "/")
    \/ \E query \in ReadPaths : ReadString(query)
    \/ \E query \in ReadPaths : ReadInt(query)
    \/ \E query \in ReadPaths : ReadFloat(query)
    \/ \E query \in ReadPaths : ReadBool(query)
    \/ \E query \in InsertPaths, value \in InsertValues : Insert(query, value)
    \/ \E query \in SlashPaths, value \in InsertValues : InsertWithSeperator(query, "/", value)

SpecDoc == DocInit /\ [][DocNext]_vars

(***************************************************************************)
(* Queries run on a document by the two executors.                         *)
(***************************************************************************)
K_x == <<"x">>
K_y == <<"y">>
Steps == {Step("A", NoKey, FALSE), Step("Wx", K_x, FALSE),
          Step("Wy", K_y, FALSE), Step("F", NoKey, TRUE)}
Chains2 == {chain(a, b) : a \in Steps, b \in Steps}
Chains3 == {chain(ab, c) : ab \in Chains2, c \in Steps}
           \cup {chain(a, bc) : a \in Steps, bc \in Chains2}
\* a.chain(b).chain(c).chain(d)
Chains4 == {chain(chain(chain(a, b), c), d) :
                a \in {Step("Wx", K_x, FALSE)}, b \in Steps, c \in Steps,
                d \in {Step("Wy", K_y, FALSE)}}
Queries == Steps \cup Chains2 \cup Chains3 \cup Chains4

QueryInit ==
    /\ doc = EmptyTable
    /\ executor = NoExecutor
    /\ call = NoCall
    /\ nops = 0

ValueQuery(q) ==
    /\ nops < MaxOps
    /\ ~executor.alive
    /\ LET r == Value_query(doc, q) IN
       /\ doc' = r.doc
       /\ call' = [op |-> "Value::query", q |-> q, pre |-> doc, res |-> r.res, log |-> r.log]
    /\ nops' = nops + 1
    /\ UNCHANGED executor

ResetNew ==
    /\ nops < MaxOps
    /\ ~executor.alive
    /\ executor' = ResetExecutor_new(doc)
    /\ UNCHANGED <<doc, call, nops>>

ResetQuery(q) ==
    /\ nops < MaxOps
    /\ executor.alive
    /\ LET r == ResetExecutor_query(executor, doc, q) IN
       /\ doc' = r.doc
       /\ call' = [op |-> "ResetExecutor::query", q |-> q, pre |-> doc, res |-> r.res,
                   log |-> r.log]
    /\ nops' = nops + 1
    /\ UNCHANGED executor

\* the executor goes out of scope and the borrow of the document ends
ResetDrop ==
    /\ executor.alive
    /\ executor' = NoExecutor
    /\ UNCHANGED <<doc, call, nops>>

QueryNext ==
    \/ \E q \in Queries : ValueQuery(q)
    \/ ResetNew
    \/ \E q \in Queries : ResetQuery(q)
    \/ ResetDrop

SpecQuery == QueryInit /\ [][QueryNext]_vars

(***************************************************************************)
(* as_type applied to the result of a lookup.                              *)
(***************************************************************************)
SampleValues == {String(<<"x">>), Integer(1), Float(<<"1", ".", "5">>), Boolean(TRUE),
                 Datetime(<<"1", "9", "7", "9">>), Array(<<Integer(1)>>),
                 EmptyTable, Tbl1(K_a, Integer(1))}

PresentShapes == {"Result<Value>", "Result<&Value>"}
OptionShapes == {"Result<Option<Value>>", "Result<Option<&Value>>"}

\* the errors a result may carry before as_type sees it
ReadErrors == {Err("NoIndexInTable"), Err("EmptyQueryError")}
ResultErrors == {TomlQueryError(Err("NoIndexInTable")),
                 [res |-> "Err", kind |-> "Other", inner |-> "E"]}

\* GetResultAsType::as_type of read.rs, by the type of self
GetResultAsType_as_type(shape, self, t) ==
    CASE shape = "Result<Value>" -> as_type_Value(self, t)
      [] shape = "Result<&Value>" -> as_type_Ref(self, t)
      [] shape = "Result<Option<Value>>" -> as_type_Option_Value(self, t)
      [] shape = "Result<Option<&Value>>" -> as_type_Option_Ref(self, t)

\* GetResultAsType<E>::as_type of result.rs, by the type of self
GetResultAsType_E_as_type(shape, self, t) ==
    CASE shape = "Result<Value>" -> as_type_E_Value(self, t)
      [] shape = "Result<&Value>" -> as_type_E_Ref(self, t)
      [] shape = "Result<Option<Value>>" -> as_type_E_Option_Value(self, t)
      [] shape = "Result<Option<&Value>>" -> as_type_E_Option_Ref(self, t)

TypeInputs ==
    {[op |-> "as_type", module |-> mod, shape |-> sh, self |-> r, t |-> t, res |-> Pending] :
        mod \in {"read"}, sh \in PresentShapes, t \in Type,
        r \in {Ok(v) : v \in SampleValues} \cup ReadErrors}
    \cup
    {[op |-> "as_type", module |-> mod, shape |-> sh, self |-> r, t |-> t, res |-> Pending] :
        mod \in {"read"}, sh \in OptionShapes, t \in Type,
        r \in {Ok(Some(v)) : v \in SampleValues} \cup {Ok(None)} \cup ReadErrors}
    \cup
    {[op |-> "as_type", module |-> mod, shape |-> sh, self |-> r, t |-> t, res |-> Pending] :
        mod \in {"result"}, sh \in PresentShapes, t \in Type,
        r \in {Ok(v) : v \in SampleValues} \cup ResultErrors}
    \cup
    {[op |-> "as_type", module |-> mod, shape |-> sh, self |-> r, t |-> t, res |-> Pending] :
        mod \in {"result"}, sh \in OptionShapes, t \in Type,
        r \in {Ok(Some(v)) : v \in SampleValues} \cup {Ok(None)} \cup ResultErrors}

TypeInit ==
    /\ doc = EmptyTable
    /\ executor = NoExecutor
    /\ call \in TypeInputs
    /\ nops = 0

ReadAsType ==
    /\ call.op = "as_type" /\ call.module = "read"
    /\ call.res = Pending
    /\ call' = [call EXCEPT !.res = GetResultAsType_as_type(call.shape, call.self, call.t)]
    /\ UNCHANGED <<doc, executor, nops>>

ResultAsType ==
    /\ call.op = "as_type" /\ call.module = "result"
    /\ call.res = Pending
    /\ call' = [call EXCEPT !.res = GetResultAsType_E_as_type(call.shape, call.self, call.t)]
    /\ UNCHANGED <<doc, executor, nops>>

TypeNext == ReadAsType \/ ResultAsType

SpecType == TypeInit /\ [][TypeNext]_vars

(***************************************************************************)
(* Claims about the query engine.                                          *)
(***************************************************************************)
QueryDone == call.op \in {"Value::query", "ResetExecutor::query"}

\* the steps of a query, left to right
RECURSIVE Leaves(_)
Leaves(q) == IF q.kind = "Chain" THEN Leaves(q.first) \o Leaves(q.second) ELSE <<q>>

\* how many steps of a sequence run: all up to and with the first that fails
RECURSIVE RunCount(_)
RunCount(steps) ==
    IF steps = <<>> THEN 0
    ELSE IF Head(steps).fails THEN 1
    ELSE 1 + RunCount(Tail(steps))

\* the document after the given steps have run on d
RECURSIVE Effects(_, _)
Effects(d, steps) ==
    IF steps = <<>> THEN d
    ELSE Effects(IF Head(steps).key = NoKey THEN d
                 ELSE Table(TableInsert(d.tbl, Head(steps).key, Integer(1))), Tail(steps))

\* C1 (as claimed): a query call on the ResetExecutor with a two-step chain
\* whose first step changes the document and whose second step fails returns
\* the second step's error and leaves the document as it was immediately
\* before that call.
C1_RollbackToStateBeforeCall ==
    (/\ call.op = "ResetExecutor::query"
     /\ call.q.kind = "Chain" /\ call.q.first.kind = "Step" /\ call.q.second.kind = "Step"
     /\ Len(call.log) = 2
     /\ call.log[2].saw # call.pre
     /\ call.q.second.fails)
    => call.res = Err(call.q.second.name) /\ doc = call.pre

\* C1 (amended): such a call returns the second step's error and leaves the
\* document as it was when the executor was constructed, which is its state
\* before the call when no earlier call on the executor has changed it.
C1_RollbackToSnapshot ==
    (/\ call.op = "ResetExecutor::query"
     /\ executor.alive
     /\ call.q.kind = "Chain" /\ call.q.first.kind = "Step" /\ call.q.second.kind = "Step"
     /\ Len(call.log) = 2
     /\ call.log[2].saw # call.pre
     /\ call.q.second.fails)
    => /\ call.res = Err(call.q.second.name)
       /\ doc = executor.snapshot
       /\ call.pre = executor.snapshot => doc = call.pre

C1_Witness ==
    /\ call.op = "ResetExecutor::query"
    /\ executor.alive
    /\ call.q = chain(Step("Wy", K_y, FALSE), Step("F", NoKey, TRUE))
    /\ call.log[2].saw # call.pre
    /\ call.res = Err("F")
    /\ doc = executor.snapshot
    /\ doc = call.pre

\* C2: when the first query of a Chain fails the second is never executed
\* and the chain returns the first's error, at any depth of nesting: the
\* steps that ran are those up to the first failing one, the error is that
\* step's, and the document shows the effects of those steps only.
C2_ChainShortCircuit ==
    (QueryDone /\ call.q.kind = "Chain") =>
        LET steps == Leaves(call.q)
            n == RunCount(steps)
        IN  /\ Len(call.log) = n
            /\ \A i \in 1..n : call.log[i].step = steps[i]
            /\ steps[n].fails => call.res = Err(steps[n].name)
            /\ call.op = "Value::query" => doc = Effects(call.pre, SubSeq(steps, 1, n))

C2_Witness ==
    /\ call.op = "Value::query"
    /\ call.q = chain(chain(chain(Step("Wx", K_x, FALSE), Step("F", NoKey, TRUE)),
                            Step("Wy", K_y, FALSE)), Step("Wy", K_y, FALSE))
    /\ Len(call.log) = 2
    /\ call.res = Err("F")
    /\ doc = Table([k \in {K_x} |-> Integer(1)])

\* an input a query may get from a query before it
SomeInput == Some([by |-> "Z", prev |-> None])

\* C17: a.chain(b).chain(c) and a.chain(b.chain(c)) invoke a, b and c in the
\* same left-to-right order with the same inputs, return the same output or
\* the same error and leave the document in the same state, under either
\* executor and for every initial input.
C17_ChainAssociative ==
    (/\ QueryDone
     /\ call.op = "ResetExecutor::query" => executor.alive
     /\ call.q.kind = "Chain" /\ call.q.first.kind = "Chain"
     /\ call.q.first.first.kind = "Step" /\ call.q.first.second.kind = "Step"
     /\ call.q.second.kind = "Step")
    => LET a == call.q.first.first
           b == call.q.first.second
           c == call.q.second
           right == chain(a, chain(b, c))
           r == IF call.op = "Value::query" THEN Value_query(call.pre, right)
                ELSE ResetExecutor_query(executor, call.pre, right)
       IN  /\ call.res = r.res
           /\ doc = r.doc
           /\ call.log = r.log
           /\ \A i \in 1..Len(call.log) : call.log[i].step = <<a, b, c>>[i]
           /\ \A prev \in {None, SomeInput} :
                 execute(call.q, call.pre, prev) = execute(right, call.pre, prev)

C17_Witness ==
    /\ call.op = "Value::query"
    /\ call.q = chain(chain(Step("Wx", K_x, FALSE), Step("Wy", K_y, FALSE)),
                      Step("A", NoKey, FALSE))
    /\ Len(call.log) = 3
    /\ call.res = Ok([by |-> "A", prev |-> Some([by |-> "Wy", prev |->
                        Some([by |-> "Wx", prev |-> None])])])
    /\ doc = Table([k \in {K_x, K_y} |-> Integer(1)])

\* the output of the i-th step that ran
OutputOf(i) == [by |-> call.log[i].step.name, prev |-> call.log[i].prev]

\* C21: a query call of an executor gives the first step the previous result
\* None; inside a chain every later step gets Some(output of the step right
\* before it), never None; the chain's result is the last step's output; and
\* each step sees the document as the steps before it left it.
C21_QueryDataFlow ==
    QueryDone =>
        LET steps == Leaves(call.q)
            n == Len(call.log)
        IN  /\ n >= 1
            /\ call.log[1].prev = None
            /\ \A i \in 2..n : call.log[i].prev = Some(OutputOf(i - 1))
            /\ call.res.res = "Ok" => n = Len(steps) /\ call.res.val = OutputOf(n)
            /\ \A i \in 1..n :
                  /\ call.log[i].step = steps[i]
                  /\ call.log[i].saw = Effects(call.pre, SubSeq(steps, 1, i - 1))

C21_Witness ==
    /\ call.op = "ResetExecutor::query"
    /\ call.q = chain(chain(chain(Step("Wx", K_x, FALSE), Step("A", NoKey, FALSE)),
                            Step("Wy", K_y, FALSE)), Step("Wy", K_y, FALSE))
    /\ Len(call.log) = 4
    /\ call.log[1].prev = None
    /\ call.log[4].prev = Some(OutputOf(3))
    /\ call.log[4].saw = Table([k \in {K_x, K_y} |-> Integer(1)])
    /\ call.res = Ok(OutputOf(4))

\* C22: the ResetExecutor takes its snapshot once, when it is constructed,
\* and keeps it over its query calls; a successful call keeps its mutations
\* in the live document, and a failing call sets the live document to its
\* state at construction, whatever earlier calls on the executor have done.
C22_SnapshotAtConstruction ==
    [][/\ (~executor.alive /\ executor'.alive) =>
             executor'.snapshot = doc /\ doc' = doc
       /\ (executor.alive /\ executor'.alive) =>
             /\ executor'.snapshot = executor.snapshot
             /\ nops' = nops + 1 =>
                   IF call'.res.res = "Ok"
                   THEN doc' = Effects(doc, Leaves(call'.q))
                   ELSE doc' = executor.snapshot]_vars

C22_Witness ==
    /\ call.op = "ResetExecutor::query"
    /\ executor.alive
    /\ call.res = Err("F")
    /\ call.pre = Table([k \in {K_x} |-> Integer(1)])
    /\ executor.snapshot = EmptyTable
    /\ doc = EmptyTable

(***************************************************************************)
(* Claims about the tokenizer.                                             *)
(***************************************************************************)
TokDone == call.op = "tokenize_with_seperator" /\ call.res # Pending
Segments == Split(call.query, call.seperator)
BracketForm(s) == s # <<>> /\ s[1] = "[" /\ s[Len(s)] = "]"
\* an optional minus followed by one or more digits (the class \d)
IntegerText(s) ==
    LET d == IF s # <<>> /\ s[1] = "-" THEN SubSeq(s, 2, Len(s)) ELSE s IN
    /\ Len(d) >= 1
    /\ \A i \in 1..Len(d) : d[i] \in ReDigit
Interior(s) == SubSeq(s, 2, Len(s) - 1)
\* a segment that mk_token_object turns into a token
WellFormed(s) ==
    /\ s # <<>>
    /\ BracketForm(s) => /\ IntegerText(Interior(s))
                         /\ I64FromStr(Interior(s)).res = "Ok"

\* C6 (as claimed): a non-empty path with an empty segment, whatever its
\* position, fails with EmptyIdentifier.  Stated for the paths whose other
\* segments are well-formed, so that no other error competes with it.
C6_EmptySegmentFailsWithEmptyIdentifier ==
    (/\ TokDone
     /\ call.query # <<>>
     /\ \E k \in 1..Len(Segments) : Segments[k] = <<>>
     /\ \A k \in 1..Len(Segments) : Segments[k] # <<>> => WellFormed(Segments[k]))
    => call.res = Err("EmptyIdentifier")

C8_ArrayIndexRoundTrip ==
    (call.op = "test_array_index" /\ call.res # Pending)
    => call.res = Ok(Index(call.i, None))

C8_Witness ==
    /\ call.op = "test_array_index"
    /\ call.i = I64Min
    /\ call.res = Ok(Index(I64Min, None))

\* C9: a path that tokenizes into k split components yields a chain of
\* exactly k tokens, token j made from component j, the last without successor.
C9_OrderAndLength ==
    (TokDone /\ call.res.res = "Ok") =>
        LET toks == ChainToSeq(call.res.val) IN
        /\ Len(toks) = Len(Segments)
        /\ \A j \in 1..Len(toks) : Ok(toks[j]) = mk_token_object(Segments[j])

C9_Witness ==
    /\ TokDone
    /\ call.query = <<"a", ".", "b", ".", "c", ".", "[", "1", "0", "0", "0", "]">>
    /\ call.seperator = "."
    /\ call.res = Ok(Identifier(<<"a">>, Some(Identifier(<<"b">>, Some(Identifier(<<"c">>,
                        Some(Index(I64(FALSE, <<"1", "0", "0", "0">>), None))))))))

(***************************************************************************)
(* Claims about read and insert.                                           *)
(***************************************************************************)
ReadDone == call.op = "read"
InsertDone == call.op = "insert"
CallTokens == tokenize_with_seperator(call.query, call.seperator)
\* the tokens of the call's path, when it tokenizes
Toks == ChainToSeq(CallTokens.val)
Front(q) == SubSeq(q, 1, Len(q) - 1)
Last(q) == q[Len(q)]

\* the node reached from node by the keys and positions of toks, each of
\* which has to be there
RECURSIVE Follow(_, _)
Follow(node, toks) ==
    IF toks = <<>> THEN Some(node)
    ELSE LET t == Head(toks) IN
         IF t.kind = "Identifier" /\ node.tag = "Table" /\ t.ident \in DOMAIN node.tbl
         THEN Follow(node.tbl[t.ident], Tail(toks))
         ELSE IF t.kind = "Index" /\ node.tag = "Array" /\ IdxInRange(t.idx, Len(node.ary))
         THEN Follow(node.ary[MagToNat(t.idx.mag) + 1], Tail(toks))
         ELSE None

\* as Follow, but a position past the end of an Array stands for its last element
RECURSIVE Land(_, _)
Land(node, toks) ==
    IF toks = <<>> THEN Some(node)
    ELSE LET t == Head(toks) IN
         IF t.kind = "Identifier" /\ node.tag = "Table" /\ t.ident \in DOMAIN node.tbl
         THEN Land(node.tbl[t.ident], Tail(toks))
         ELSE IF t.kind = "Index" /\ node.tag = "Array" /\ node.ary # <<>>
         THEN Land(node.ary[IF IdxInRange(t.idx, Len(node.ary))
                            THEN MagToNat(t.idx.mag) + 1 ELSE Len(node.ary)], Tail(toks))
         ELSE None

\* C3: an insert whose final segment is an Identifier addressing a Table
\* returns Ok(Some(old)) exactly when the key held old, Ok(None) exactly when
\* the key was absent, and the document then holds the new value at the key.
C3_InsertReturnsPrevious ==
    (InsertDone /\ CallTokens.res = "Ok" /\ Last(Toks).kind = "Identifier") =>
        LET parent == Follow(call.pre, Front(Toks))
            key == Last(Toks).ident
        IN  /\ (parent.some /\ parent.val.tag = "Table") =>
                /\ call.res.res = "Ok"
                /\ call.res.val = (IF key \in DOMAIN parent.val.tbl
                                   THEN Some(parent.val.tbl[key]) ELSE None)
                /\ Follow(doc, Toks) = Some(call.value)
            /\ call.res.res = "Ok" => (call.res.val.some <=> Follow(call.pre, Toks).some)

C3_Witness ==
    /\ InsertDone
    /\ call.query = <<"t", "a", "b", "l", "e", ".", "a">>
    /\ call.value = Integer(2)
    /\ call.res = Ok(Some(Integer(1)))
    /\ Follow(doc, Toks) = Some(Integer(2))

\* the number of leading tokens of toks that Follow finds in node
RECURSIVE Existing(_, _)
Existing(node, toks) ==
    IF toks = <<>> \/ ~Follow(node, <<Head(toks)>>).some THEN 0
    ELSE 1 + Existing(Follow(node, <<Head(toks)>>).val, Tail(toks))

\* C4 (as claimed): when only a prefix of the path exists, the next key
\* being absent from a Table, insert succeeds, creates every missing
\* intermediate container (an empty Array before an Index, an empty Table
\* before an Identifier) and places the value at the end of the path, at
\* position 0 of a freshly created Array.
C4_InsertCreatesMissingStructure ==
    (InsertDone /\ CallTokens.res = "Ok") =>
        LET k == Existing(call.pre, Toks)
            at == Follow(call.pre, SubSeq(Toks, 1, k))
        IN  (/\ k < Len(Toks) - 1
             /\ at.val.tag = "Table"
             /\ Toks[k + 1].kind = "Identifier") =>
                /\ call.res = Ok(None)
                /\ \A j \in (k + 1)..(Len(Toks) - 1) :
                      LET made == Land(doc, SubSeq(Toks, 1, j)) IN
                      /\ made.some
                      /\ IF Toks[j + 1].kind = "Index"
                         THEN made.val.tag = "Array" /\ Len(made.val.ary) = 1
                         ELSE made.val.tag = "Table" /\ DOMAIN made.val.tbl = {Toks[j + 1].ident}
                /\ Land(doc, Toks) = Some(call.value)

\* C5 (as claimed): an insert whose final Index segment addresses an
\* existing Array of length n with an index >= n returns Ok(None) and appends
\* the value: the length becomes n + 1, the value is the last element and
\* the first n elements are unchanged.
C5_InsertAppendsToShortArray ==
    (InsertDone /\ CallTokens.res = "Ok" /\ Last(Toks).kind = "Index") =>
        LET parent == Follow(call.pre, Front(Toks)) IN
        (/\ parent.some
         /\ parent.val.tag = "Array"
         /\ ~Last(Toks).idx.neg
         /\ ~IdxInRange(Last(Toks).idx, Len(parent.val.ary))) =>
            /\ call.res = Ok(None)
            /\ Follow(doc, Front(Toks)) = Some(Array(Append(parent.val.ary, call.value)))

\* C10: a read whose walk reaches a Table that lacks the Identifier's key,
\* or an Array whose length is <= the Index or whose Index is negative,
\* returns Ok(None).
C10_ReadAbsenceIsNone ==
    (ReadDone /\ CallTokens.res = "Ok") =>
        \A k \in 1..Len(Toks) :
            LET n == Follow(call.pre, SubSeq(Toks, 1, k - 1))
                t == Toks[k]
            IN  (/\ n.some
                 /\ \/ n.val.tag = "Table" /\ t.kind = "Identifier" /\ t.ident \notin DOMAIN n.val.tbl
                    \/ n.val.tag = "Array" /\ t.kind = "Index"
                         /\ (t.idx.neg \/ ~IdxInRange(t.idx, Len(n.val.ary))))
                => call.res = Ok(None)

C10_Witness ==
    /\ ReadDone
    /\ call.query = <<"a", "r", "r", "a", "y", ".", "[", "-", "1", "]">>
    /\ Follow(call.pre, <<Identifier(K_array, None)>>).some
    /\ call.res = Ok(None)

\* C11: a read whose walk meets an Index token at a Table node fails with
\* NoIndexInTable, with the default and with an explicit separator; it is
\* never Ok(None).
C11_ReadIndexOnTable ==
    (ReadDone /\ CallTokens.res = "Ok") =>
        \A k \in 1..Len(Toks) :
            LET n == Follow(call.pre, SubSeq(Toks, 1, k - 1)) IN
            (n.some /\ n.val.tag = "Table" /\ Toks[k].kind = "Index")
                => call.res = Err("NoIndexInTable")

C11_Witness ==
    /\ ReadDone
    /\ call.seperator = "/"
    /\ call.query = <<"t", "a", "b", "l", "e", "/", "[", "0", "]">>
    /\ call.pre = Tbl1(K_table, EmptyTable)
    /\ call.res = Err("NoIndexInTable")

Scalar(node) == node.tag \notin {"Table", "Array"}

\* C12: a read whose walk meets an Identifier token at a node that is not a
\* Table, or any token at a scalar node, fails with the structural type
\* error; it does not return Ok(None).
C12_ReadStructuralMismatch ==
    (ReadDone /\ CallTokens.res = "Ok") =>
        \A k \in 1..Len(Toks) :
            LET n == Follow(call.pre, SubSeq(Toks, 1, k - 1)) IN
            (/\ n.some
             /\ \/ Toks[k].kind = "Identifier" /\ n.val.tag # "Table"
                \/ Scalar(n.val))
                => call.res = Err("StructuralTypeMismatch")

C12_Witness ==
    /\ ReadDone
    /\ call.query = <<"t", "a", "b", "l", "e", ".", "a", ".", "[", "0", "]">>
    /\ call.pre = Tbl1(K_table, Tbl1(K_a, Integer(1)))
    /\ call.res = Err("StructuralTypeMismatch")

\* C13: a read along a path each of whose Identifiers names a present key
\* of a Table and each of whose Indexes lies within its Array returns
\* Ok(Some(node)), node being the value reached from the root by these keys
\* and positions in order.
C13_ReadReturnsAddressedNode ==
    (ReadDone /\ CallTokens.res = "Ok" /\ Follow(call.pre, Toks).some) =>
        call.res = Ok(Some(Follow(call.pre, Toks).val))

C13_Witness ==
    /\ ReadDone
    /\ call.query = <<"a", "r", "r", "a", "y", ".", "[", "0", "]">>
    /\ call.pre = Tbl1(K_array, Array(<<Integer(1), Integer(2), Integer(3)>>))
    /\ call.res = Ok(Some(Integer(1)))

\* C18: after an insert on a path of Identifiers only has returned Ok, a
\* read of the same path on the resulting document returns Ok(Some(v)), v
\* being the inserted value, and every proper prefix of the path reads as a
\* Table.
C18_InsertThenRead ==
    (/\ InsertDone
     /\ call.res.res = "Ok"
     /\ \A i \in 1..Len(Toks) : Toks[i].kind = "Identifier")
    => /\ read_with_seperator(doc, call.query, call.seperator) = Ok(Some(call.value))
       /\ \A k \in 1..(Len(Toks) - 1) :
             LET r == resolve(doc, SubSeq(Toks, 1, k)) IN
             r.res = "Ok" /\ r.val.some /\ r.val.val.tag = "Table"

C18_Witness ==
    /\ InsertDone
    /\ call.query = <<"a", ".", "b", ".", "c", ".", "d">>
    /\ call.pre = Tbl1(K_a, Tbl1(K_b, Tbl1(K_c, EmptyTable)))
    /\ call.value = Integer(1)
    /\ call.res = Ok(None)
    /\ read(doc, call.query) = Ok(Some(Integer(1)))

(***************************************************************************)
(* Claims about the type layer.                                            *)
(***************************************************************************)
AsTypeDone == call.op = "as_type" /\ call.res # Pending

\* the Type that stands for a tag, and its name
TypeOfTag == [String |-> "Type::String", Integer |-> "Type::Integer",
              Float |-> "Type::Float", Boolean |-> "Type::Boolean",
              Datetime |-> "Type::Datetime", Array |-> "Type::Array",
              Table |-> "Type::Table"]
NameOfType == [x \in Type |-> CHOOSE tag \in DOMAIN TypeOfTag : TypeOfTag[tag] = x]

\* the TypeError as the impl of the call raises it
Raised(e) == IF call.module = "result" THEN TomlQueryError(e) ELSE e

\* C14: as_type, in each of its four result shapes, returns a value whose
\* tag is the expected Type unchanged, fails with TypeError(name of the
\* Type, name of the value's tag) when the tag differs, returns Ok(None) for
\* an absent optional value whatever the Type, and passes an incoming Err
\* through unchanged.
C14_AsType ==
    AsTypeDone =>
        IF call.self.res # "Ok" THEN call.res = call.self
        ELSE IF call.shape \in OptionShapes /\ ~call.self.val.some THEN call.res = Ok(None)
        ELSE LET v == IF call.shape \in OptionShapes THEN call.self.val.val ELSE call.self.val IN
             IF TypeOfTag[v.tag] = call.t
             THEN call.res = call.self
             ELSE call.res = Raised(TypeError(NameOfType[call.t], v.tag))

C14_Witness ==
    /\ AsTypeDone
    /\ call.module = "read"
    /\ call.shape = "Result<Option<&Value>>"
    /\ call.self = Ok(Some(Integer(1)))
    /\ call.t = "Type::String"
    /\ call.res = TypeError("String", "Integer")

Getters == {"read_string", "read_int", "read_float", "read_bool"}
GetterDone == call.op \in Getters
GetterTag == [read_string |-> "String", read_int |-> "Integer",
              read_float |-> "Float", read_bool |-> "Boolean"]
\* the content of a scalar Value
Payload(v) ==
    CASE v.tag = "String" -> [string |-> v.str]
      [] v.tag = "Integer" -> [i64 |-> v.int]
      [] v.tag = "Float" -> [f64 |-> v.flt]
      [] v.tag = "Boolean" -> [bool |-> v.bool]

\* C15: a typed getter fails with NotAvailable(path) when read yields None,
\* with TypeError(expected name, actual tag name) when read yields a value
\* of another tag, returns the native value of a value of its tag, and
\* returns read's own error when tokenizing or resolving fails.
C15_TypedGetters ==
    GetterDone =>
        LET r == read(call.pre, call.query)
            expected == GetterTag[call.op]
        IN  /\ r.res = "Err" => call.res = r
            /\ r = Ok(None) => call.res = NotAvailable(call.query)
            /\ (r.res = "Ok" /\ r.val.some) =>
                  IF r.val.val.tag = expected
                  THEN call.res = Ok(Payload(r.val.val))
                  ELSE call.res = TypeError(expected, r.val.val.tag)

C15_Witness ==
    /\ call.op = "read_string"
    /\ call.query = <<"t", "a", "b", "l", "e", ".", "a">>
    /\ call.pre = Tbl1(K_table, Tbl1(K_a, Integer(1)))
    /\ call.res = TypeError("String", "Integer")

(***************************************************************************)
(* Claims about failures.                                                  *)
(***************************************************************************)
\* C16 (as claimed): every call of read, read_mut, insert or a typed getter,
\* and with it the tokenizer run it starts with, returns Ok or Err,
\* whatever the path, the separator, the document and the value; none
\* aborts.
C16_NoPanics ==
    call.op # "none" => call.res.res \in {"Ok", "Err"}

(***************************************************************************)
(* Claims about the effects of read and insert on the document.            *)
(***************************************************************************)
\* C19: read, read_with_seperator and the typed getters leave the document
\* exactly as it was, whether they return a value, None, an error of the
\* tokenizer or an error of the resolver; a read of a missing path creates
\* nothing.
C19_ReadLeavesDocument ==
    (ReadDone \/ GetterDone) => doc = call.pre

C19_Witness ==
    /\ ReadDone
    /\ call.query = <<"a", ".", "b", ".", "c", ".", "d">>
    /\ call.pre = Tbl1(K_a, EmptyTable)
    /\ call.res = Ok(None)
    /\ doc = Tbl1(K_a, EmptyTable)

\* after differs from before at most along the keys of toks: both are
\* Tables, after has the keys of before and the first key of toks, every
\* other key holds the value it held, and the same goes for the tables
\* further along toks, a table that was not there counting as empty
RECURSIVE SameOffPath(_, _, _)
SameOffPath(before, after, toks) ==
    LET k == Head(toks).ident IN
    /\ before.tag = "Table" /\ after.tag = "Table"
    /\ DOMAIN after.tbl = DOMAIN before.tbl \cup {k}
    /\ \A x \in DOMAIN before.tbl \ {k} : after.tbl[x] = before.tbl[x]
    /\ Len(toks) > 1 =>
          SameOffPath(IF k \in DOMAIN before.tbl THEN before.tbl[k] ELSE EmptyTable,
                      after.tbl[k], Tail(toks))

\* C23: a successful insert at a path of Identifiers only changes the entry
\* the final segment names and creates the tables it misses along the path;
\* every other key of the tables on the path, and with it every table off
\* the path, holds the value it held before, and the root stays a Table.
C23_InsertFrame ==
    (/\ InsertDone
     /\ call.res.res = "Ok"
     /\ \A i \in 1..Len(Toks) : Toks[i].kind = "Identifier")
    => /\ doc.tag = "Table"
       /\ SameOffPath(call.pre, doc, Toks)

C23_Witness ==
    /\ InsertDone
    /\ call.query = <<"t", "a", "b", "l", "e", ".", "a">>
    /\ call.pre = Table([k \in {K_table, K_a} |->
                            IF k = K_a THEN Integer(2) ELSE Tbl1(K_a, Integer(1))])
    /\ call.res = Ok(Some(Integer(1)))
    /\ doc = Table([k \in {K_table, K_a} |->
                       IF k = K_a THEN Integer(2) ELSE Tbl1(K_a, Integer(2))])

====
